---- MODULE Spec2Model ----
(***************************************************************************)
(* Model of expense_tracker.py: the atomic-save protocol (temporary file,  *)
(* rename, backup copy, cleanup), the commands that mutate the persisted   *)
(* dataset (add, edit, delete, import, clear, undo, categories,            *)
(* setbudget), the queries that aggregate it (summary, budget) and the     *)
(* command loop that runs them one at a time.                              *)
(*                                                                         *)
(* Files are modelled by their content: absent, partially written, or a   *)
(* complete JSON document (the dataset that json.dump serialised).         *)
(* Strings the program parses (amounts, dates) are drawn from small sets   *)
(* and converted by tables that list what the Python conversion returns.   *)
(***************************************************************************)
EXTENDS Integers, Sequences, FiniteSets, TLC

(***************************************************************************)
(* Bounds of the model.                                                    *)
(***************************************************************************)
\* a run has at most MaxEvents events: a command typed at the prompt, a
\* file operation that fails, a kill of the process
MaxEvents == 4

(***************************************************************************)
(* Values.                                                                 *)
(***************************************************************************)
\* the result of a conversion that raised ValueError
ValueError == "<ValueError>"

\* file contents: no file, a file whose write did not complete, a complete
\* JSON document
Absent == [exists |-> FALSE]
Partial == [exists |-> TRUE, complete |-> FALSE]
Json(d) == [exists |-> TRUE, complete |-> TRUE, doc |-> d]

IsJson(f) == f.exists /\ f.complete

\* {"expenses": [], "budgets": {}, "categories": []}
EmptyDataset == [expenses |-> << >>, budgets |-> << >>, categories |-> << >>]

\* datetime.now().isoformat() at the t-th reading of the clock
now_iso(t) == "2026-11-03T09:00:0" \o ToString(t)

\* an id generator that repeats: only the low digit of the id varies
uuid4_repeating(n) == << 0, n % 2 >>

\* str(uuid.uuid4()) for the n-th generated id, as its sequence of hex digits
uuid4(n) == << n \div 2, n % 2 >>

\* str.startswith on ids
startswith(id, prefix) ==
    /\ Len(prefix) <= Len(id)
    /\ SubSeq(id, 1, Len(prefix)) = prefix

\* str.strip() on the text inputs of the model
strip(s) ==
    CASE s = " Food" -> "Food"
      [] s = " " -> ""
      [] OTHER -> s

\* normalize_amount: strip, drop "," and "$", Decimal(s), str(d)
normalize_amount(val) ==
    CASE val = "12.50" -> "12.50"
      [] val = "$7" -> "7"
      [] val = "7" -> "7"
      [] val = "1,000" -> "1000"
      [] val = "1000" -> "1000"
      [] val = "0" -> "0"
      [] val = "15.00" -> "15.00"
      [] val = "-5" -> "-5"
      [] OTHER -> ValueError

\* Decimal(s) for a normalized amount s, in hundredths
Decimal(s) ==
    CASE s = "12.50" -> 1250
      [] s = "7" -> 700
      [] s = "1000" -> 100000
      [] s = "0" -> 0
      [] s = "15.00" -> 1500
      [] s = "-5" -> -500

\* parse_date(s).isoformat(): fromisoformat first, then the strptime formats
\* "%Y-%m-%d", "%Y-%m-%d %H:%M:%S", "%d-%m-%Y", "%d/%m/%Y"
parse_date(s) ==
    CASE s = "2024-03-01" -> "2024-03-01T00:00:00"
      [] s = "2024-03-01T00:00:00" -> "2024-03-01T00:00:00"
      [] s = "2024-03-01 00:00:00" -> "2024-03-01T00:00:00"
      [] s = "01-04-2024" -> "2024-04-01T00:00:00"
      [] s = "01/04/2024" -> "2024-04-01T00:00:00"
      [] s = "2024-04-01T00:00:00" -> "2024-04-01T00:00:00"
      [] OTHER -> ValueError

\* the strings now_iso() returns in a run
NowStrings == {now_iso(t) : t \in 0..(3 * MaxEvents)}

\* datetime.fromisoformat(s).strftime("%Y-%m"); fromisoformat raises on a
\* string that is not an ISO date
month_of(s) ==
    CASE s \in {"2024-03-01T00:00:00", "2024-03-01"} -> "2024-03"
      [] s \in {"2024-04-01T00:00:00"} -> "2024-04"
      [] s \in NowStrings -> "2026-11"
      [] OTHER -> ValueError

\* mk_expense raises ValueError (date is parsed first, then the amount)
mk_expense_raises(amount, date) ==
    \/ date # "" /\ parse_date(date) = ValueError
    \/ normalize_amount(amount) = ValueError

\* number of now_iso() calls of mk_expense
mk_expense_ticks(date) == IF date # "" THEN 2 ELSE 3

\* mk_expense(amount, category, note, date) when the clock has been read clk
\* times and uid ids have been generated
mk_expense(amount, category, note, date, clk, uid) ==
    [id |-> uuid4(uid),
     amount |-> normalize_amount(amount),
     category |-> IF strip(category) # "" THEN strip(category) ELSE "Misc",
     note |-> strip(note),
     date |-> IF date # "" THEN parse_date(date) ELSE now_iso(clk),
     created_at |-> now_iso(clk + mk_expense_ticks(date) - 2),
     updated_at |-> now_iso(clk + mk_expense_ticks(date) - 1)]

\* x in list
InList(x, list) == \E i \in 1..Len(list) : list[i] = x

\* data.setdefault("categories", []).append(cat) unless cat is already there
append_category(categories, cat) ==
    IF InList(cat, categories) THEN categories ELSE Append(categories, cat)

(***************************************************************************)
(* State.                                                                  *)
(***************************************************************************)
VARIABLES
    data_file,      \* content of DATA_FILE (expenses.json)
    tmp_file,       \* content of DATA_FILE + ".tmp"
    backup_file,    \* content of BACKUP_FILE (expenses.backup.json)
    pc,             \* where the process is: boot, prompt, a step of
                    \* atomic_save, the categories session, or killed
    cmd,            \* the command being run, or the last one run
    data,           \* the dict `data` of the running command
    cats,           \* the set `cats` of manage_categories
    exc,            \* the exception propagating out of atomic_save
    clock,          \* number of now_iso() calls so far
    uuid_n,         \* number of ids generated so far
    sv,             \* history of the last atomic_save call
    prev,           \* the command before the current one, and for undo
                    \* what its save replaced
    events,         \* number of commands typed, failed file operations
                    \* and kills so far
    last            \* what the last command, or the last step of the
                    \* categories session, was given and printed

vars == << data_file, tmp_file, backup_file, pc, cmd, data, cats, exc,
           clock, uuid_n, sv, prev, events, last >>

NoSave == [called |-> FALSE]
NoStep == [op |-> "none"]

Init ==
    /\ data_file = Absent
    /\ tmp_file = Absent
    /\ backup_file = Absent
    /\ pc = "boot"
    /\ cmd = "main"
    /\ data = EmptyDataset
    /\ cats = {}
    /\ exc = "none"
    /\ clock = 0
    /\ uuid_n = 0
    /\ sv = NoSave
    /\ prev = [cmd |-> "none", saved |-> FALSE]
    /\ events = 0
    /\ last = NoStep

(***************************************************************************)
(* ensure_data_file, load_data.                                            *)
(***************************************************************************)
\* content of DATA_FILE after ensure_data_file()
ensure_data_file(f) == IF f.exists THEN f ELSE Json(EmptyDataset)

\* json.load raises on a file that is not a complete document
load_raises(f) == ~IsJson(ensure_data_file(f))

\* the dict returned by load_data()
load_data(f) == ensure_data_file(f).doc

\* main() up to the first prompt. ensure_data_file creates DATA_FILE with
\* open(DATA_FILE, "w") and json.dump: when open fails the file is not
\* created, when the dump fails or the process is killed during it the file
\* is left incomplete; the call is outside the try of main, so in both cases
\* the process ends
main_start ==
    /\ pc = "boot"
    /\ \/ /\ data_file' = ensure_data_file(data_file)
          /\ pc' = "prompt"
          /\ UNCHANGED events
       \/ /\ ~data_file.exists
          /\ events < MaxEvents
          /\ events' = events + 1
          /\ data_file' \in {Absent, Partial}
          /\ pc' = "killed"
    /\ UNCHANGED << tmp_file, backup_file, cmd, data, cats, exc, clock,
                    uuid_n, sv, prev, last >>

(***************************************************************************)
(* Entering and leaving a command.                                         *)
(***************************************************************************)
\* the command c starts at the prompt; the history of the one before is kept
Typed(c) ==
    /\ pc = "prompt"
    /\ events < MaxEvents
    /\ events' = events + 1
    /\ cmd' = c
    /\ prev' = IF c = "undo" /\ sv.called /\ sv.done /\ sv.renamed
                             /\ sv.raised = "none"
                THEN [cmd |-> cmd, saved |-> TRUE, canon0 |-> sv.canon0]
                ELSE [cmd |-> "none", saved |-> FALSE]

\* a command that records nothing about its inputs starts
Begin(c) ==
    /\ Typed(c)
    /\ last' = NoStep

\* the command returns to the prompt without calling atomic_save
ReturnNoSave ==
    /\ pc' = "prompt"
    /\ sv' = NoSave
    /\ data' = EmptyDataset
    /\ exc' = "none"
    /\ cats' = {}
    /\ UNCHANGED << tmp_file, backup_file >>

\* the command calls atomic_save(d) with DATA_FILE holding f
CallAtomicSave(d, f) ==
    /\ pc' = "save_write"
    /\ data' = d
    /\ exc' = "none"
    /\ sv' = [called |-> TRUE, arg |-> d, canon0 |-> f,
              backup0 |-> backup_file, renamed |-> FALSE,
              copy |-> "none", remove |-> "none", done |-> FALSE,
              failed |-> "none", raised |-> "none", reported |-> "none"]
    /\ UNCHANGED << tmp_file, backup_file >>

(***************************************************************************)
(* atomic_save, one step per file operation.                               *)
(***************************************************************************)
\* a file operation fails, or the process is killed
Fault ==
    /\ events < MaxEvents
    /\ events' = events + 1

\* a save that writes DATA_FILE in place instead of the .tmp file
atomic_save_write_in_place ==
    /\ pc = "save_write"
    /\ \/ /\ data_file' = Json(data)
          /\ pc' = "save_replace"
          /\ UNCHANGED << exc, events >>
       \/ /\ Fault
          /\ data_file' \in {data_file, Partial}
          /\ exc' = "io"
          /\ pc' = "save_finally"
    /\ tmp_file' = data_file'
    /\ UNCHANGED << backup_file, cmd, data, cats, clock, uuid_n,
                    sv, prev, last >>

\* with open(tmp, "w") as f: json.dump(data, f): the write completes, or
\* open fails (the file is as it was), or the write fails after open
\* truncated the file
atomic_save_write ==
    /\ pc = "save_write"
    /\ \/ /\ tmp_file' = Json(data)
          /\ pc' = "save_replace"
          /\ UNCHANGED << exc, events, sv >>
       \/ /\ Fault
          /\ tmp_file' \in {tmp_file, Partial}
          /\ exc' = "io"
          /\ sv' = [sv EXCEPT !.failed = "write"]
          /\ pc' = "save_finally"
    /\ UNCHANGED << data_file, backup_file, cmd, data, cats, clock, uuid_n,
                    prev, last >>

\* the content of DATA_FILE after os.replace(tmp, DATA_FILE)
replaced(tmp, canonical) == tmp

\* os.replace(tmp, DATA_FILE): atomic, or fails and changes nothing
atomic_save_replace ==
    /\ pc = "save_replace"
    /\ \/ /\ data_file' = replaced(tmp_file, data_file)
          /\ tmp_file' = Absent
          /\ sv' = [sv EXCEPT !.renamed = TRUE]
          /\ pc' = "save_copy"
          /\ UNCHANGED << exc, events >>
       \/ /\ Fault
          /\ exc' = "io"
          /\ sv' = [sv EXCEPT !.failed = "replace"]
          /\ pc' = "save_finally"
          /\ UNCHANGED << data_file, tmp_file >>
    /\ UNCHANGED << backup_file, cmd, data, cats, clock, uuid_n, prev, last >>

\* a backup taken of the file that the rename replaced
copied_before_replace(canonical, old) == sv.canon0

\* the content of BACKUP_FILE after shutil.copy(DATA_FILE, BACKUP_FILE)
\* copied canonical (the file just renamed into place) over old
copied(canonical, old) == canonical

\* a backup copy whose failure is not swallowed
atomic_save_copy_raising ==
    /\ pc = "save_copy"
    /\ \/ /\ backup_file' = copied(data_file, backup_file)
          /\ sv' = [sv EXCEPT !.copy = "ok"]
          /\ UNCHANGED << exc, events >>
       \/ /\ Fault
          /\ backup_file' \in {backup_file, Partial,
                               copied(data_file, backup_file)}
          /\ sv' = [sv EXCEPT !.copy = "failed"]
          /\ exc' = "io"
    /\ pc' = "save_finally"
    /\ UNCHANGED << data_file, tmp_file, cmd, data, cats, clock, uuid_n,
                    prev, last >>

\* shutil.copy(DATA_FILE, BACKUP_FILE) inside try/except Exception: pass.
\* A failed copy leaves the destination as it was (open failed), truncated
\* (write failed) or fully written (copymode failed); the exception is
\* swallowed
atomic_save_copy ==
    /\ pc = "save_copy"
    /\ \/ /\ backup_file' = copied(data_file, backup_file)
          /\ sv' = [sv EXCEPT !.copy = "ok"]
          /\ UNCHANGED << exc, events >>
       \/ /\ Fault
          /\ backup_file' \in {backup_file, Partial,
                               copied(data_file, backup_file)}
          /\ sv' = [sv EXCEPT !.copy = "failed"]
          /\ UNCHANGED exc
    /\ pc' = "save_finally"
    /\ UNCHANGED << data_file, tmp_file, cmd, data, cats, clock, uuid_n,
                    prev, last >>

\* a cleanup that leaves the .tmp file in place
removed_nothing(tmp) == tmp

\* the content of the .tmp file after a successful os.remove(tmp)
removed(tmp) == Absent

\* a test that also takes an expense whose date does not parse
in_month_or_unparsable(e, month) ==
    month_of(e.date) \in {month, ValueError}

\* try: if datetime.fromisoformat(e.get("date", "")).strftime("%Y-%m")
\* == month ... except Exception: continue
in_month(e, month) == month_of(e.date) = month

\* total of the amounts of the expenses from the i-th on whose date is in
\* month; an expense whose date does not parse is skipped
RECURSIVE spent_from(_, _, _)
spent_from(expenses, i, month) ==
    IF i > Len(expenses) THEN 0
    ELSE (IF in_month(expenses[i], month)
            THEN Decimal(expenses[i].amount) ELSE 0)
         + spent_from(expenses, i + 1, month)

\* budgets.get(month), "" for None
budget_of(budgets, month) ==
    IF month \in DOMAIN budgets THEN budgets[month] ELSE ""

\* an alert check that also fires when the total equals the budget
check_budget_alert_at_limit(d, expense) ==
    /\ month_of(expense.date) # ValueError
    /\ budget_of(d.budgets, month_of(expense.date)) # ""
    /\ spent_from(d.expenses, 1, month_of(expense.date))
         >= Decimal(budget_of(d.budgets, month_of(expense.date)))

\* check_budget_alert_for_expense(data, expense) prints the warning
check_budget_alert_for_expense(d, expense) ==
    /\ month_of(expense.date) # ValueError
    /\ budget_of(d.budgets, month_of(expense.date)) # ""
    /\ spent_from(d.expenses, 1, month_of(expense.date))
         > Decimal(budget_of(d.budgets, month_of(expense.date)))

\* an atomic_save that swallows the exception of its try block
finished_swallowing(s, e, rm) ==
    [s EXCEPT !.done = TRUE, !.raised = "none", !.reported = "none",
              !.remove = rm]

\* the history of an atomic_save that ends with the exception e propagating
\* ("none": it returns) and the outcome rm of os.remove; an exception is
\* caught and printed by the except Exception clause of the command
finished(s, e, rm) ==
    [s EXCEPT !.done = TRUE, !.raised = e,
              !.reported = IF e = "none" THEN "none" ELSE "command",
              !.remove = rm]

\* finally: if os.path.exists(tmp): try os.remove(tmp) except Exception: pass
\* then atomic_save returns or re-raises, the command prints what it has to
\* (add_interactive: the budget alert) and returns to the prompt
atomic_save_finally ==
    /\ pc = "save_finally"
    /\ \/ /\ ~tmp_file.exists
          /\ UNCHANGED << tmp_file, events >>
          /\ sv' = finished(sv, exc, "none")
       \/ /\ tmp_file.exists
          /\ tmp_file' = removed(tmp_file)
          /\ sv' = finished(sv, exc, "ok")
          /\ UNCHANGED events
       \/ /\ tmp_file.exists
          /\ Fault
          /\ UNCHANGED tmp_file
          /\ sv' = finished(sv, exc, "failed")
    /\ last' = IF cmd = "add" /\ exc = "none" /\ last.outcome = "saving"
                 THEN [last EXCEPT !.alert =
                         check_budget_alert_for_expense(
                             data, data.expenses[Len(data.expenses)])]
                 ELSE last
    /\ pc' = "prompt"
    /\ data' = EmptyDataset
    /\ exc' = "none"
    /\ UNCHANGED << data_file, backup_file, cmd, cats, clock, uuid_n, prev >>

\* the process is killed inside atomic_save: nothing more runs
kill ==
    /\ pc \in {"save_write", "save_replace", "save_copy", "save_finally"}
    /\ Fault
    /\ pc' = "killed"
    /\ data' = EmptyDataset
    /\ exc' = "none"
    /\ UNCHANGED << data_file, tmp_file, backup_file, cmd, cats, clock,
                    uuid_n, sv, prev, last >>

\* the program is started again
restart ==
    /\ pc = "killed"
    /\ pc' = "boot"
    /\ UNCHANGED << data_file, tmp_file, backup_file, cmd, data, cats, exc,
                    clock, uuid_n, sv, prev, events, last >>

(***************************************************************************)
(* Commands.                                                               *)
(***************************************************************************)
\* what is typed at the prompts of add_interactive: amount, category, note,
\* date; an amount or a date that does not parse is asked again, and the
\* answer is then cancel
AddInputs ==
    { << "12.50", "Food", "", "2024-03-01" >>,
      << "$7", "", "", "01/04/2024" >>,
      << "abc", "Food", "", "2024-03-01" >>,
      << "12.50", "Rent", "", "bad" >> }

\* an add that registers the category before the date is validated
add_interactive_early_category ==
    /\ Typed("add")
    /\ \E in \in AddInputs :
        LET amt == normalize_amount(in[1])
            cat == IF strip(in[2]) = "" THEN "Misc" ELSE strip(in[2])
            date_iso == IF in[4] = "" THEN "" ELSE parse_date(in[4])
            exp == mk_expense(amt, cat, in[3], date_iso, clock, uuid_n)
            d == load_data(data_file)
        IN  /\ ~load_raises(data_file)
            /\ amt # ValueError
            /\ data_file' = ensure_data_file(data_file)
            /\ IF date_iso = ValueError
                 THEN /\ last' = [op |-> "add", outcome |-> "cancelled",
                                  data_file0 |-> data_file,
                                  backup0 |-> backup_file]
                      /\ CallAtomicSave(
                           [d EXCEPT !.categories = append_category(@, cat)],
                           ensure_data_file(data_file))
                      /\ UNCHANGED << clock, uuid_n >>
                 ELSE /\ last' = [op |-> "add", outcome |-> "saving",
                                  alert |-> FALSE]
                      /\ clock' = clock + mk_expense_ticks(date_iso)
                      /\ uuid_n' = uuid_n + 1
                      /\ CallAtomicSave(
                           [d EXCEPT !.categories = append_category(@, cat),
                                     !.expenses = Append(@, exp)],
                           ensure_data_file(data_file))
    /\ UNCHANGED cats

\* add_interactive: input_amount and input_date return the normalized
\* input, or the command is cancelled; then mk_expense, load_data, append,
\* atomic_save
add_interactive ==
    /\ Typed("add")
    /\ \E in \in AddInputs :
        LET amount == in[1]
            category == in[2]
            note == in[3]
            date == in[4]
            amt == normalize_amount(amount)
            cat == IF strip(category) = "" THEN "Misc" ELSE strip(category)
            date_iso == IF date = "" THEN "" ELSE parse_date(date)
            exp == mk_expense(amt, cat, note, date_iso, clock, uuid_n)
            d == load_data(data_file)
        IN  IF amt = ValueError \/ date_iso = ValueError
                 THEN /\ last' = [op |-> "add", outcome |-> "cancelled",
                                  data_file0 |-> data_file,
                                  backup0 |-> backup_file]
                      /\ ReturnNoSave
                      /\ UNCHANGED << data_file, clock, uuid_n >>
                 ELSE /\ clock' = clock + mk_expense_ticks(date_iso)
                      /\ uuid_n' = uuid_n + 1
                      /\ data_file' = ensure_data_file(data_file)
                      /\ IF load_raises(data_file)
                           THEN /\ last' = [op |-> "add",
                                            outcome |-> "load failed"]
                                /\ ReturnNoSave
                           ELSE /\ last' = [op |-> "add",
                                            outcome |-> "saving",
                                            alert |-> FALSE]
                                /\ CallAtomicSave(
                                     [d EXCEPT
                                        !.categories =
                                            append_category(@, cat),
                                        !.expenses = Append(@, exp)],
                                     ensure_data_file(data_file))
    /\ UNCHANGED cats

\* undo_last: reload BACKUP_FILE and save it; json.load raising is caught
undo_last ==
    /\ Begin("undo")
    /\ IF IsJson(backup_file)
         THEN CallAtomicSave(backup_file.doc, data_file)
         ELSE ReturnNoSave
    /\ UNCHANGED << data_file, cats, clock, uuid_n >>

\* find_by_prefix: index of the first expense whose id starts with prefix,
\* 0 when there is none
find_by_prefix(expenses, prefix) ==
    IF \E i \in 1..Len(expenses) : startswith(expenses[i].id, prefix)
      THEN CHOOSE i \in 1..Len(expenses) :
             /\ startswith(expenses[i].id, prefix)
             /\ \A j \in 1..(i - 1) : ~startswith(expenses[j].id, prefix)
      ELSE 0

\* id prefixes typed at the ID prefix prompts
Prefixes == { <<0>>, <<0, 1>>, <<7>> }
\* what is typed at the prompts of edit_interactive: amount, category,
\* note, date ("" keeps the field)
EditInputs ==
    { << "abc", "Rent", "", "" >>,
      << "$7", "", "tea", "bad" >>,
      << "", "", "", "01/04/2024" >> }

\* an edit that commits its fields only when all of them are valid
edited_all_or_nothing(e, new_amt, new_cat, new_note, new_date, clk) ==
    IF \/ new_amt # "" /\ normalize_amount(new_amt) = ValueError
       \/ new_date # "" /\ parse_date(new_date) = ValueError
      THEN [e EXCEPT !.updated_at = now_iso(clk)]
      ELSE [e EXCEPT
              !.amount = IF new_amt # "" THEN normalize_amount(new_amt) ELSE @,
              !.category = IF new_cat # "" THEN new_cat ELSE @,
              !.note = IF new_note # "" THEN new_note ELSE @,
              !.date = IF new_date # "" THEN parse_date(new_date) ELSE @,
              !.updated_at = now_iso(clk)]

\* the expense e after the field updates of edit_interactive
edited(e, new_amt, new_cat, new_note, new_date, clk) ==
    [e EXCEPT
       !.amount = IF new_amt # "" /\ normalize_amount(new_amt) # ValueError
                    THEN normalize_amount(new_amt) ELSE @,
       !.category = IF new_cat # "" THEN new_cat ELSE @,
       !.note = IF new_note # "" THEN new_note ELSE @,
       !.date = IF new_date # "" /\ parse_date(new_date) # ValueError
                  THEN parse_date(new_date) ELSE @,
       !.updated_at = now_iso(clk)]

\* for i, item in enumerate(expenses): if item["id"] == e["id"]:
\*     expenses[i] = e; break
replace_by_id(expenses, e) ==
    LET hit(i) == expenses[i].id = e.id
    IN  [i \in 1..Len(expenses) |->
           IF hit(i) /\ \A j \in 1..(i - 1) : ~hit(j)
             THEN e ELSE expenses[i]]

\* edit_interactive; the history records the position of the expense that
\* was found, what was typed and the file the command started with
edit_interactive ==
    /\ Typed("edit")
    /\ \E prefix \in Prefixes :
        IF load_raises(data_file)
             \/ find_by_prefix(load_data(data_file).expenses, prefix) = 0
          THEN /\ ReturnNoSave
               /\ last' = [op |-> "edit", i |-> 0]
               /\ data_file' = ensure_data_file(data_file)
               /\ UNCHANGED clock
          ELSE \E in \in EditInputs :
                 LET new_amt == in[1]
                     new_cat == in[2]
                     new_note == in[3]
                     new_date == in[4]
                     d == load_data(data_file)
                     e == edited(d.expenses[find_by_prefix(d.expenses, prefix)],
                                 strip(new_amt), strip(new_cat),
                                 strip(new_note), strip(new_date), clock)
                 IN  /\ last' = [op |-> "edit",
                                 i |-> find_by_prefix(d.expenses, prefix),
                                 in |-> in,
                                 data_file0 |-> data_file]
                     /\ clock' = clock + 1
                     /\ UNCHANGED data_file
                     /\ CallAtomicSave(
                          [d EXCEPT
                             !.expenses = replace_by_id(@, e),
                             !.categories = append_category(@, e.category)],
                          data_file)
    /\ UNCHANGED << cats, uuid_n >>

\* a filter that drops only the expense whose id is the prefix itself
without_exact_id(exps, prefix) ==
    SelectSeq(exps, LAMBDA x : x.id # prefix)

\* [x for x in exps if not x["id"].startswith(prefix)]
without_prefix(exps, prefix) ==
    SelectSeq(exps, LAMBDA x : ~startswith(x.id, prefix))

\* delete_interactive; the history records the answers and the files the
\* command started with
delete_interactive ==
    /\ Typed("delete")
    /\ \E prefix \in Prefixes, conf \in {"yes", "no"} :
        /\ last' = [op |-> "delete", prefix |-> prefix, conf |-> conf,
                    data_file0 |-> data_file, backup0 |-> backup_file]
        /\ IF \/ load_raises(data_file)
              \/ find_by_prefix(load_data(data_file).expenses, prefix) = 0
              \/ conf # "yes"
             THEN /\ ReturnNoSave
                  /\ data_file' = ensure_data_file(data_file)
             ELSE LET d == load_data(data_file)
                  IN  /\ UNCHANGED data_file
                      /\ CallAtomicSave(
                           [d EXCEPT !.expenses = without_prefix(@, prefix)],
                           data_file)
    /\ UNCHANGED << cats, clock, uuid_n >>

\* a row of the CSV file, as csv.DictReader returns it
Row(amount, category, note, date) ==
    [amount |-> amount, category |-> category, note |-> note, date |-> date]

\* the CSV files that are imported
CsvFiles ==
    { << Row("12.50", "Food", "", "2024-03-01") >>,
      << Row("12.50", "Food", "", "2024-03-01T00:00:00"),
         Row("12.50", "Food", "", "2024-03-01T00:00:00") >>,
      << Row("abc", "Food", "", ""), Row("$7", "", "", "") >> }

\* the dedup key of a stored expense
expense_key(e) == << e.amount, e.date, e.category, e.note >>

\* the dedup key of a CSV row
row_key(amount, category, note, date) ==
    << normalize_amount(amount), date, category, note >>

\* the loop of import_csv over the rows from the i-th on; st holds the
\* expenses, the existing keys, the clock, the id counter and the count
RECURSIVE import_rows(_, _, _)
import_rows(rows, i, st) ==
    IF i > Len(rows) THEN st
    ELSE
      LET row == rows[i]
          amount == IF row.amount # "" THEN row.amount ELSE "0"
          category == IF row.category # "" THEN row.category ELSE "Imported"
          note == row.note
          date == row.date
          e == mk_expense(amount, category, note, date, st.clock, st.uuid_n)
      IN  IF \/ normalize_amount(amount) = ValueError
             \/ row_key(amount, category, note, date) \in st.existing_keys
             \/ mk_expense_raises(amount, date)
            THEN import_rows(rows, i + 1, st)
            ELSE import_rows(rows, i + 1,
                   [expenses |-> Append(st.expenses, e),
                    existing_keys |-> st.existing_keys \cup {expense_key(e)},
                    clock |-> st.clock + mk_expense_ticks(date),
                    uuid_n |-> st.uuid_n + 1,
                    imported |-> st.imported + 1])

\* the result of the import loop on the dataset d
imported(d, rows, clk, uid) ==
    import_rows(rows, 1,
        [expenses |-> d.expenses,
         existing_keys |-> {expense_key(d.expenses[k]) :
                              k \in 1..Len(d.expenses)},
         clock |-> clk, uuid_n |-> uid, imported |-> 0])

\* import_csv; the history records the file, the count that is printed and
\* whether the command before was an import of the same file that renamed
\* its dataset into DATA_FILE
import_csv ==
    /\ Typed("import")
    /\ \E rows \in CsvFiles :
        IF load_raises(data_file)
          THEN /\ ReturnNoSave
               /\ last' = [op |-> "import", rows |-> rows, imported |-> 0,
                           again |-> FALSE]
               /\ UNCHANGED << data_file, clock, uuid_n >>
          ELSE LET d == load_data(data_file)
                   r == imported(d, rows, clock, uuid_n)
               IN  /\ last' = [op |-> "import", rows |-> rows,
                               imported |-> r.imported,
                               again |-> /\ cmd = "import"
                                         /\ last.op = "import"
                                         /\ last.rows = rows
                                         /\ sv.called /\ sv.done
                                         /\ sv.renamed]
                   /\ clock' = r.clock
                   /\ uuid_n' = r.uuid_n
                   /\ data_file' = ensure_data_file(data_file)
                   /\ CallAtomicSave([d EXCEPT !.expenses = r.expenses],
                                     ensure_data_file(data_file))
    /\ UNCHANGED cats

\* clear_all
clear_all ==
    /\ Begin("clear")
    /\ \E conf \in {"DELETE", "no"} :
        IF conf = "DELETE"
          THEN CallAtomicSave(EmptyDataset, data_file)
          ELSE ReturnNoSave
    /\ UNCHANGED << data_file, cats, clock, uuid_n >>

(***************************************************************************)
(* Budgets and the monthly summary.                                        *)
(***************************************************************************)
\* datetime.strptime(month + "-01", "%Y-%m-%d") succeeds; %m takes one or
\* two digits
valid_month(month) ==
    CASE month = "2024-03" -> TRUE
      [] month = "2024-04" -> TRUE
      [] month = "2024-3" -> TRUE
      [] month = "2026-11" -> TRUE
      [] OTHER -> FALSE

\* what is typed at the prompts of set_budget: month, amount
SetBudgetInputs ==
    { << "2024-03", "12.50" >>,
      << "2024-3", "$7" >>,
      << "2024-13", "7" >>,
      << "2024-03", "abc" >> }

\* data.setdefault("budgets", {})[month] = b
with_budget(budgets, month, b) ==
    [m \in (DOMAIN budgets) \cup {month} |->
        IF m = month THEN b ELSE budgets[m]]

\* set_budget: load_data, the month is checked with strptime, the amount
\* with normalize_amount, then atomic_save
set_budget ==
    /\ Typed("setbudget")
    /\ \E in \in SetBudgetInputs :
        LET month == in[1]
            amt == in[2]
            d == load_data(data_file)
        IN  /\ last' = [op |-> "setbudget", month |-> month, amt |-> amt,
                        data_file0 |-> ensure_data_file(data_file),
                        backup0 |-> backup_file]
            /\ IF \/ load_raises(data_file)
                  \/ ~valid_month(month)
                  \/ normalize_amount(amt) = ValueError
                 THEN ReturnNoSave
                 ELSE CallAtomicSave(
                        [d EXCEPT !.budgets =
                           with_budget(@, month, normalize_amount(amt))],
                        ensure_data_file(data_file))
    /\ data_file' = ensure_data_file(data_file)
    /\ UNCHANGED << cats, clock, uuid_n >>

\* a summary that keeps the last amount of each month
accumulate_overwriting(totals, key, amt) ==
    [k \in (DOMAIN totals) \cup {key} |->
        IF k = key THEN amt ELSE totals[k]]

\* totals.setdefault(key, Decimal(0)); totals[key] += amt
accumulate(totals, key, amt) ==
    [k \in (DOMAIN totals) \cup {key} |->
        (IF k \in DOMAIN totals THEN totals[k] ELSE 0)
          + (IF k = key THEN amt ELSE 0)]

\* the key of an expense in summary_by_month
summary_key(e) ==
    IF month_of(e.date) = ValueError THEN "unknown" ELSE month_of(e.date)

\* the loop of summary_by_month over the expenses from the i-th on
RECURSIVE summary_from(_, _, _)
summary_from(expenses, i, totals) ==
    IF i > Len(expenses) THEN totals
    ELSE summary_from(expenses, i + 1,
           accumulate(totals, summary_key(expenses[i]),
                      Decimal(expenses[i].amount)))

\* summary_by_month: the history records the totals that are printed
summary_by_month ==
    /\ Typed("summary")
    /\ last' = IF load_raises(data_file)
                 THEN [op |-> "summary", printed |-> FALSE]
                 ELSE [op |-> "summary", printed |-> TRUE,
                       totals |-> summary_from(
                                    load_data(data_file).expenses, 1, << >>)]
    /\ ReturnNoSave
    /\ data_file' = ensure_data_file(data_file)
    /\ UNCHANGED << clock, uuid_n >>

\* an alert that also fires when nothing remains
exceeded_at_zero(rem) == rem <= 0

\* if rem < 0: print("Alert: Budget exceeded by", ...)
exceeded(rem) == rem < 0

\* months typed at the prompt of budget_status; blank is the current month
BudgetMonths == {"", "2024-03", "2024-04", "2024-3", "unknown"}

\* budget_status: the history records what is printed: the month, the spent
\* total, the budget ("" for Not set), and the remaining amount and the
\* alert when the budget is truthy
budget_status ==
    /\ Typed("budget")
    /\ \E in \in BudgetMonths :
        LET d == load_data(data_file)
            month == IF in = "" THEN "2026-11" ELSE in
            total == spent_from(d.expenses, 1, month)
            budget == budget_of(d.budgets, month)
            rem == Decimal(budget) - total
        IN  last' = IF load_raises(data_file)
                      THEN [op |-> "budget", printed |-> FALSE]
                      ELSE [op |-> "budget", printed |-> TRUE,
                            month |-> month, spent |-> total,
                            budget |-> budget,
                            has_remaining |-> budget # "",
                            remaining |-> IF budget # "" THEN rem ELSE 0,
                            alert |-> budget # "" /\ exceeded(rem)]
    /\ ReturnNoSave
    /\ data_file' = ensure_data_file(data_file)
    /\ UNCHANGED << clock, uuid_n >>

\* q, quit, exit at the prompt: the loop of main ends
quit ==
    /\ Begin("quit")
    /\ pc' = "exited"
    /\ UNCHANGED << data_file, tmp_file, backup_file, data, cats, exc, clock,
                    uuid_n, sv >>

(***************************************************************************)
(* manage_categories: a session of add and remove steps, saved at quit.    *)
(***************************************************************************)
\* the category names of the model in the order sorted() gives them
CatOrder == << "Food", "Imported", "Misc", "Rent" >>
\* names typed at the New category prompt
NewCategories == {"", "Rent"}
\* names typed at the Category to remove prompt
RemoveCategories == {"Food", "Rent"}
\* answers to the delete / reassign / cancel question
CascadeAnswers == {"d", "r", "x"}
\* names typed at the New category name prompt of reassign
ReassignTargets == {"", "Food", "Rent", "Misc"}

\* set(list)
set_of(list) == {list[i] : i \in 1..Len(list)}

\* sorted(list(cats))
sorted(s) == SelectSeq(CatOrder, LAMBDA c : c \in s)

\* [e for e in expenses if e["category"] == c]
linked(expenses, c) == SelectSeq(expenses, LAMBDA e : e.category = c)

\* a cascade that keeps the linked expenses and drops the others
delete_cascade_inverted(expenses, c) ==
    SelectSeq(expenses, LAMBDA e : e.category = c)

\* [e for e in expenses if e["category"] != c]
delete_cascade(expenses, c) == SelectSeq(expenses, LAMBDA e : e.category # c)

\* a cascade that tests the new name instead of the removed one
reassign_cascade_wrong_test(expenses, c, newc) ==
    [i \in 1..Len(expenses) |->
       IF expenses[i].category = newc
         THEN [expenses[i] EXCEPT !.category = newc]
         ELSE expenses[i]]

\* for e in expenses: if e["category"] == c: e["category"] = newc
reassign_cascade(expenses, c, newc) ==
    [i \in 1..Len(expenses) |->
       IF expenses[i].category = c
         THEN [expenses[i] EXCEPT !.category = newc]
         ELSE expenses[i]]

\* cats.discard(c); cats.add(newc)
reassign_cats(s, c, newc) == (s \ {c}) \cup {newc}

\* manage_categories up to its first prompt: load_data, cats = set(...)
manage_categories_begin ==
    /\ Typed("categories")
    /\ last' = [op |-> "begin", only |-> TRUE]
    /\ IF load_raises(data_file)
         THEN ReturnNoSave
         ELSE /\ pc' = "categories"
              /\ data' = load_data(data_file)
              /\ cats' = set_of(load_data(data_file).categories)
              /\ sv' = NoSave
              /\ UNCHANGED << tmp_file, backup_file, exc >>
    /\ data_file' = ensure_data_file(data_file)
    /\ UNCHANGED << clock, uuid_n >>

\* [a]dd
manage_categories_add ==
    /\ pc = "categories"
    /\ \E c \in NewCategories :
        /\ cats' = IF strip(c) # "" THEN cats \cup {strip(c)} ELSE cats
        /\ last' = [op |-> "add", name |-> strip(c), only |-> FALSE]
    /\ UNCHANGED << data_file, tmp_file, backup_file, pc, cmd, data, exc,
                    clock, uuid_n, sv, prev, events >>

\* an answer chain that reassigns to a blank category name
cascade_action_blank_target(action, newc) ==
    IF action = "d" THEN "delete"
    ELSE IF action = "r" THEN "reassign"
    ELSE "cancel"

\* if action in ("d","delete") ... elif action in ("r","reassign"): if newc
\* ... else cancelled ... else cancelled
cascade_action(action, newc) ==
    IF action = "d" THEN "delete"
    ELSE IF action = "r" /\ strip(newc) # "" THEN "reassign"
    ELSE "cancel"

\* [r]emove; the history records the answers and the expenses and the set of
\* categories the step started with, and whether every step of the session
\* so far cancelled a removal
manage_categories_remove ==
    /\ pc = "categories"
    /\ \E c \in RemoveCategories, action \in CascadeAnswers,
          newc \in ReassignTargets :
        LET act == cascade_action(action, newc)
            before == [op |-> act, name |-> c, answer |-> action,
                       target |-> strip(newc), only |-> FALSE,
                       expenses |-> data.expenses, cats |-> cats]
        IN
        IF c \notin cats
          THEN /\ last' = [op |-> "not found", name |-> c, only |-> FALSE]
               /\ UNCHANGED << data, cats >>
        ELSE IF Len(linked(data.expenses, c)) = 0
          THEN /\ cats' = cats \ {c}
               /\ last' = [op |-> "remove", name |-> c, only |-> FALSE]
               /\ UNCHANGED data
        ELSE IF act = "delete"
          THEN /\ data' = [data EXCEPT
                             !.expenses = delete_cascade(@, c)]
               /\ cats' = cats \ {c}
               /\ last' = before
        ELSE IF act = "reassign"
          THEN /\ data' = [data EXCEPT
                             !.expenses = reassign_cascade(@, c, strip(newc))]
               /\ cats' = reassign_cats(cats, c, strip(newc))
               /\ last' = before
          ELSE /\ last' = [before EXCEPT !.only = last.only]
               /\ UNCHANGED << data, cats >>
    /\ UNCHANGED << data_file, tmp_file, backup_file, pc, cmd, exc, clock,
                    uuid_n, sv, prev, events >>

\* [q]uit: data["categories"] = sorted(list(cats)); atomic_save(data)
manage_categories_quit ==
    /\ pc = "categories"
    /\ CallAtomicSave([data EXCEPT !.categories = sorted(cats)], data_file)
    /\ cats' = {}
    /\ UNCHANGED << data_file, cmd, clock, uuid_n, prev, events, last >>

Next ==
    \/ main_start
    \/ atomic_save_write
    \/ atomic_save_replace
    \/ atomic_save_copy
    \/ atomic_save_finally
    \/ kill
    \/ restart
    \/ add_interactive
    \/ edit_interactive
    \/ delete_interactive
    \/ import_csv
    \/ clear_all
    \/ undo_last
    \/ manage_categories_begin
    \/ manage_categories_add
    \/ manage_categories_remove
    \/ manage_categories_quit
    \/ set_budget
    \/ quit

Spec == Init /\ [][Next]_vars

(***************************************************************************)
(* The commands that only read, on the data files a user may have.         *)
(***************************************************************************)
\* length of the longest list of expenses of a data file
MaxExpenses == 3

\* expenses as mk_expense stores them, and expenses of a file edited by hand
\* whose date is not an ISO date
SomeExpenses ==
    { mk_expense("12.50", "Food", "", "2024-03-01", 0, 0),
      mk_expense("$7", "", "", "2024-03-01", 0, 1),
      mk_expense("7", "Rent", "", "01/04/2024", 0, 2),
      [mk_expense("15.00", "Food", "", "2024-03-01", 0, 3)
          EXCEPT !.date = "someday"],
      [mk_expense("1,000", "Rent", "", "2024-03-01", 0, 3)
          EXCEPT !.date = ""] }

\* the lists of at most n expenses
RECURSIVE ExpenseLists(_)
ExpenseLists(n) ==
    IF n = 0 THEN { << >> }
    ELSE ExpenseLists(n - 1)
           \cup { Append(l, e) : l \in ExpenseLists(n - 1), e \in SomeExpenses }

\* budgets as set_budget stores them
SomeBudgets ==
    { << >>,
      with_budget(<< >>, "2024-03", "15.00"),
      with_budget(<< >>, "2024-03", "0"),
      with_budget(with_budget(<< >>, "2024-04", "7"), "2024-3", "7") }

\* the program is at its prompt with some data file
InitQuery ==
    /\ data_file \in { Json([expenses |-> l, budgets |-> b,
                              categories |-> << >>]) :
                          l \in ExpenseLists(MaxExpenses), b \in SomeBudgets }
    /\ tmp_file = Absent
    /\ backup_file = Absent
    /\ pc = "prompt"
    /\ cmd = "main"
    /\ data = EmptyDataset
    /\ cats = {}
    /\ exc = "none"
    /\ clock = 0
    /\ uuid_n = 0
    /\ sv = NoSave
    /\ prev = [cmd |-> "none", saved |-> FALSE]
    /\ events = 0
    /\ last = NoStep

NextQuery ==
    \/ summary_by_month
    \/ budget_status

SpecQuery == InitQuery /\ [][NextQuery]_vars

(***************************************************************************)
(* Properties of atomic_save.                                              *)
(***************************************************************************)
\* atomic_save was called by the last command and has returned or raised
SaveFinished == pc = "prompt" /\ sv.called /\ sv.done

\* atomic_save was called by the last command and returned normally
SaveSucceeded == SaveFinished /\ sv.renamed /\ sv.raised = "none"

\* C1: as long as the rename of a save has not happened (the save is still
\* running, has failed, was interrupted or the process was killed), DATA_FILE
\* holds what it held when the save started
C1_CanonicalUnchangedBeforeRename ==
    (sv.called /\ ~sv.renamed) => data_file = sv.canon0

\* a save of a new dataset failed before the rename
C1_Witness ==
    /\ SaveFinished
    /\ ~sv.renamed
    /\ sv.raised = "io"
    /\ sv.canon0 # Json(sv.arg)
    /\ sv.canon0 # Json(EmptyDataset)

\* C2: after a successful save whose backup copy succeeded, BACKUP_FILE holds
\* the dataset that DATA_FILE held just before the save
C2_BackupHoldsPrevious ==
    (SaveSucceeded /\ sv.copy = "ok") => backup_file = sv.canon0

\* the commands that save a changed dataset
Mutating == {"add", "edit", "delete", "import", "clear", "categories"}

\* C3: an undo that runs right after a mutating command saved D1 over D0
\* leaves D0 in DATA_FILE
C3_UndoRestoresPrevious ==
    (SaveSucceeded /\ cmd = "undo" /\ prev.saved /\ prev.cmd \in Mutating)
        => data_file = prev.canon0

\* C4: after a save whose backup copy succeeded, BACKUP_FILE has the content
\* of DATA_FILE
C4_BackupEqualsCanonical ==
    (SaveFinished /\ sv.copy = "ok") => backup_file = data_file

\* a save replaced the dataset and refreshed the backup
C4_Witness ==
    /\ SaveFinished
    /\ sv.copy = "ok"
    /\ sv.canon0 # data_file
    /\ sv.backup0 # backup_file

\* C5 as stated: once atomic_save has finished the .tmp file does not exist
C5_TmpAbsentAfterSave == SaveFinished => ~tmp_file.exists

\* C5 amended: once atomic_save has finished the .tmp file does not exist,
\* unless the os.remove of the cleanup failed
C5_TmpAbsentUnlessRemoveFailed ==
    SaveFinished => (tmp_file.exists => sv.remove = "failed")

\* a save failed before the rename and its cleanup removed the .tmp file
C5_Witness ==
    /\ SaveFinished
    /\ ~sv.renamed
    /\ sv.raised = "io"
    /\ sv.remove = "ok"
    /\ ~tmp_file.exists

\* C6 as stated: when the backup copy fails the save still succeeds,
\* DATA_FILE holds the new dataset and BACKUP_FILE keeps its content
C6_BackupFailureKeepsBackup ==
    (SaveFinished /\ sv.copy = "failed")
        => /\ sv.raised = "none"
           /\ data_file = Json(sv.arg)
           /\ backup_file = sv.backup0

\* C6 amended: when the backup copy fails the save still succeeds and
\* DATA_FILE holds the new dataset; BACKUP_FILE is as it was, truncated, or
\* already holds the new dataset
C6_BackupFailureKeepsSave ==
    (SaveFinished /\ sv.copy = "failed")
        => /\ sv.raised = "none"
           /\ data_file = Json(sv.arg)
           /\ backup_file \in {sv.backup0, Partial, data_file}

\* the backup copy of a save of a new dataset failed and left the backup
\* as it was
C6_Witness ==
    /\ SaveFinished
    /\ sv.copy = "failed"
    /\ sv.canon0 # data_file
    /\ IsJson(sv.backup0)
    /\ backup_file = sv.backup0
    /\ backup_file # data_file

(***************************************************************************)
(* Properties of the dataset.                                              *)
(***************************************************************************)
\* C7: no two expenses of the persisted dataset have the same id
C7_UniqueIds ==
    IsJson(data_file) =>
        \A i, j \in 1..Len(data_file.doc.expenses) :
            i # j => data_file.doc.expenses[i].id # data_file.doc.expenses[j].id

\* two expenses are persisted, the second created by an import
C7_Witness ==
    /\ SaveSucceeded
    /\ cmd = "import"
    /\ Len(data_file.doc.expenses) >= 2
    /\ Len(sv.canon0.doc.expenses) < Len(data_file.doc.expenses)

\* the category values used by the expenses of a dataset
UsedCategories(d) == {d.expenses[i].category : i \in 1..Len(d.expenses)}

\* C8: after add, edit or import has saved, every category used by an
\* expense of the persisted dataset is in the persisted registry
C8_CategoriesCoverUsage ==
    (SaveSucceeded /\ cmd \in {"add", "edit", "import"})
        => UsedCategories(data_file.doc) \subseteq set_of(data_file.doc.categories)

\* C9: right after a Delete cascade no expense has the removed category,
\* the expenses of other categories are all still there and are the only
\* ones, and the category is out of the registry; the same holds of the
\* persisted dataset when the session ends there and its save succeeds
C9_DeleteCascade ==
    /\ (pc = "categories" /\ last.op = "delete") =>
          /\ \A i \in 1..Len(data.expenses) :
                data.expenses[i].category # last.name
          /\ \A i \in 1..Len(last.expenses) :
                last.expenses[i].category # last.name
                    => InList(last.expenses[i], data.expenses)
          /\ \A i \in 1..Len(data.expenses) :
                InList(data.expenses[i], last.expenses)
          /\ last.name \notin cats
    /\ (SaveSucceeded /\ cmd = "categories" /\ last.op = "delete") =>
          /\ \A i \in 1..Len(data_file.doc.expenses) :
                data_file.doc.expenses[i].category # last.name
          /\ \A i \in 1..Len(last.expenses) :
                last.expenses[i].category # last.name
                    => InList(last.expenses[i], data_file.doc.expenses)
          /\ ~InList(last.name, data_file.doc.categories)

\* a Delete cascade removed one expense and kept another
C9_Witness ==
    /\ pc = "categories"
    /\ last.op = "delete"
    /\ Len(last.expenses) = 2
    /\ Len(data.expenses) = 1

\* the expenses after a reassign step carry the target where they carried
\* the removed name, and none carries the removed name
Reassigned ==
    /\ Len(data.expenses) = Len(last.expenses)
    /\ \A i \in 1..Len(last.expenses) :
          last.expenses[i].category = last.name
              => data.expenses[i].category = last.target
    /\ \A i \in 1..Len(data.expenses) :
          data.expenses[i].category # last.name

\* C10 as stated: right after Reassign(x), for every non-empty x, the
\* expenses that had the removed name have x and none has the removed name
C10_ReassignCascadeAnyTarget ==
    (pc = "categories" /\ last.op = "reassign") => Reassigned

\* C10 amended: the same for every non-empty x other than the removed name
C10_ReassignCascadeOtherTarget ==
    (pc = "categories" /\ last.op = "reassign" /\ last.target # last.name)
        => Reassigned

\* expenses were reassigned to a name that was not in the registry
C10_Witness ==
    /\ pc = "categories"
    /\ last.op = "reassign"
    /\ last.target # last.name
    /\ last.target \notin last.cats
    /\ \E i \in 1..Len(data.expenses) : data.expenses[i].category = last.target

(***************************************************************************)
(* Properties of the commands.                                             *)
(***************************************************************************)
\* the last step of the categories session was the removal of a category in
\* use, answered with something else than delete or reassign, or with
\* reassign and a blank new name
Aborted ==
    /\ cmd = "categories"
    /\ last.op \in {"cancel", "delete", "reassign"}
    /\ \/ last.answer \notin {"d", "r"}
       \/ last.answer = "r" /\ last.target = ""

\* C11: an aborted removal of a category in use leaves the expenses and the
\* set of categories of the session as they were, and a session made of
\* aborted removals only saves a dataset with the expenses, the budgets and
\* the set of categories DATA_FILE had when the session began
C11_AbortLeavesDataset ==
    /\ (pc = "categories" /\ Aborted)
          => /\ data.expenses = last.expenses
             /\ cats = last.cats
             /\ data.budgets = data_file.doc.budgets
    /\ (SaveSucceeded /\ Aborted /\ last.only)
          => /\ data_file.doc.expenses = sv.canon0.doc.expenses
             /\ data_file.doc.budgets = sv.canon0.doc.budgets
             /\ set_of(data_file.doc.categories)
                  = set_of(sv.canon0.doc.categories)

\* a session of aborted removals was saved, and the list of categories is not
\* the list the session began with
C11_Witness ==
    /\ SaveSucceeded
    /\ Aborted
    /\ last.only
    /\ data_file.doc.categories # sv.canon0.doc.categories

\* C12: an import of the file that the command before has just imported
\* adds no expense
C12_ImportIdempotent ==
    (cmd = "import" /\ last.op = "import" /\ last.again) => last.imported = 0

\* the sum of f over the set S
RECURSIVE Sum(_, _)
Sum(f, S) ==
    IF S = {} THEN 0
    ELSE LET x == CHOOSE y \in S : TRUE IN f[x] + Sum(f, S \ {x})

\* the amounts of the expenses of DATA_FILE, by position
Amounts ==
    [i \in 1..Len(data_file.doc.expenses) |->
        Decimal(data_file.doc.expenses[i].amount)]

\* the positions of the expenses of DATA_FILE whose date falls in month
InMonth(month) ==
    {i \in 1..Len(data_file.doc.expenses) :
        month_of(data_file.doc.expenses[i].date) = month}

\* the positions of the expenses of DATA_FILE whose date cannot be parsed
Unparsable ==
    {i \in 1..Len(data_file.doc.expenses) :
        month_of(data_file.doc.expenses[i].date) = ValueError}

\* the months of the model
Months == {"2024-03", "2024-04", "2026-11"}

\* C13: summary_by_month has a total for exactly the months in which an
\* expense falls, equal to the sum of the amounts of the expenses of that
\* month, and an "unknown" total exactly when a date cannot be parsed, equal
\* to the sum of the amounts of the expenses with such a date
C13_SummaryTotals ==
    (pc = "prompt" /\ cmd = "summary" /\ last.op = "summary" /\ last.printed)
      => /\ DOMAIN last.totals \subseteq Months \cup {"unknown"}
         /\ \A m \in Months :
              /\ m \in DOMAIN last.totals <=> InMonth(m) # {}
              /\ m \in DOMAIN last.totals
                   => last.totals[m] = Sum(Amounts, InMonth(m))
         /\ "unknown" \in DOMAIN last.totals <=> Unparsable # {}
         /\ "unknown" \in DOMAIN last.totals
              => last.totals["unknown"] = Sum(Amounts, Unparsable)
         /\ Sum(last.totals, DOMAIN last.totals)
              = Sum(Amounts, DOMAIN Amounts)

\* a summary of a month with two expenses and of an expense whose date
\* cannot be parsed
C13_Witness ==
    /\ pc = "prompt" /\ cmd = "summary" /\ last.op = "summary" /\ last.printed
    /\ \E m \in Months : Cardinality(InMonth(m)) = 2
    /\ Cardinality(Unparsable) = 1
    /\ "unknown" \in DOMAIN last.totals

\* C14: budget_status prints as spent the sum of the amounts of the expenses
\* dated in the month; with a budget for the month, zero included, it prints
\* remaining = budget - spent and alerts exactly when remaining < 0; without
\* one it prints no remaining amount and does not alert
C14_BudgetStatus ==
    (pc = "prompt" /\ cmd = "budget" /\ last.op = "budget" /\ last.printed)
      => /\ last.spent = Sum(Amounts, InMonth(last.month))
         /\ last.month \in DOMAIN data_file.doc.budgets
              => /\ last.has_remaining
                 /\ last.remaining
                      = Decimal(data_file.doc.budgets[last.month])
                          - last.spent
                 /\ last.alert <=> last.remaining < 0
         /\ last.month \notin DOMAIN data_file.doc.budgets
              => /\ ~last.has_remaining
                 /\ ~last.alert

\* the status of a month with a budget of 15.00 and 19.50 spent: remaining
\* is -4.50 and the alert is printed
C14_Witness ==
    /\ pc = "prompt" /\ cmd = "budget" /\ last.op = "budget" /\ last.printed
    /\ last.month = "2024-03"
    /\ last.budget = "15.00"
    /\ last.spent = 1950
    /\ last.remaining = -450
    /\ last.alert

\* the list sub holds, in the order of the list all, exactly the elements of
\* all that satisfy keep
IsFiltered(sub, all, keep(_)) ==
    \E pos \in [1..Len(sub) -> 1..Len(all)] :
        /\ \A i \in 1..Len(sub) : sub[i] = all[pos[i]]
        /\ \A i, j \in 1..Len(sub) : i < j => pos[i] < pos[j]
        /\ \A k \in 1..Len(all) :
              keep(all[k]) <=> \E i \in 1..Len(sub) : pos[i] = k

\* C15: a confirmed delete saves the expenses DATA_FILE held whose id does
\* not start with the prefix, in their order, with the budgets and the
\* categories it held; a delete whose prefix matches no id calls no save and
\* leaves DATA_FILE and BACKUP_FILE as they were
C15_DeleteByPrefix ==
    /\ (SaveSucceeded /\ cmd = "delete")
          => LET keep(x) == ~startswith(x.id, last.prefix)
             IN  /\ IsFiltered(data_file.doc.expenses,
                               last.data_file0.doc.expenses, keep)
                 /\ data_file.doc.budgets = last.data_file0.doc.budgets
                 /\ data_file.doc.categories = last.data_file0.doc.categories
    /\ (pc = "prompt" /\ cmd = "delete" /\ IsJson(last.data_file0)
          /\ \A i \in 1..Len(last.data_file0.doc.expenses) :
                ~startswith(last.data_file0.doc.expenses[i].id, last.prefix))
          => /\ sv = NoSave
             /\ data_file = last.data_file0
             /\ backup_file = last.backup0

\* a delete removed one expense and left two, whose order could have changed
C15_Witness ==
    /\ SaveSucceeded
    /\ cmd = "delete"
    /\ Len(last.data_file0.doc.expenses) = 3
    /\ Len(data_file.doc.expenses) = 2
    /\ data_file.doc.expenses[1] # data_file.doc.expenses[2]

\* C16: an add whose amount or date is malformed, and is then cancelled,
\* calls no save and leaves DATA_FILE (its expenses and its categories) and
\* BACKUP_FILE as they were
C16_RejectedAddMutatesNothing ==
    (pc = "prompt" /\ cmd = "add" /\ last.outcome = "cancelled")
      => /\ sv = NoSave
         /\ data_file = last.data_file0
         /\ backup_file = last.backup0

\* an add was rejected on a store that holds an expense and has a backup
C16_Witness ==
    /\ pc = "prompt"
    /\ cmd = "add"
    /\ last.outcome = "cancelled"
    /\ IsJson(data_file)
    /\ Len(data_file.doc.expenses) > 0
    /\ IsJson(backup_file)

\* C17: an edit saves the expense it found with each supplied valid field
\* committed and each blank or invalid field (amount, date) as it was, with
\* the same id and created_at and a new updated_at, and saves every other
\* expense as it was
C17_EditPartialSuccess ==
    (SaveSucceeded /\ cmd = "edit")
      => LET old == last.data_file0.doc.expenses
             new == data_file.doc.expenses
             o == old[last.i]
             n == new[last.i]
             new_amt == last.in[1]
             new_cat == last.in[2]
             new_note == last.in[3]
             new_date == last.in[4]
         IN  /\ Len(new) = Len(old)
             /\ \A k \in 1..Len(old) : k # last.i => new[k] = old[k]
             /\ n.id = o.id
             /\ n.created_at = o.created_at
             /\ n.updated_at = now_iso(clock - 1)
             /\ n.updated_at # o.updated_at
             /\ n.amount = IF new_amt # ""
                                /\ normalize_amount(new_amt) # ValueError
                             THEN normalize_amount(new_amt) ELSE o.amount
             /\ n.category = IF new_cat # "" THEN new_cat ELSE o.category
             /\ n.note = IF new_note # "" THEN new_note ELSE o.note
             /\ n.date = IF new_date # "" /\ parse_date(new_date) # ValueError
                           THEN parse_date(new_date) ELSE o.date

\* an edit with a malformed amount and a new category was saved: the second
\* of two expenses has the new category and its old amount
C17_Witness ==
    /\ SaveSucceeded
    /\ cmd = "edit"
    /\ last.i = 2
    /\ normalize_amount(last.in[1]) = ValueError
    /\ data_file.doc.expenses[2].category = "Rent"
    /\ last.data_file0.doc.expenses[2].category # "Rent"
    /\ data_file.doc.expenses[2].amount
          = last.data_file0.doc.expenses[2].amount

\* the month key is of the form YYYY-MM, with the month in 01..12
WellFormedMonth(m) == m \in Months

\* C18: every key of the budgets of DATA_FILE is a well-formed YYYY-MM key,
\* and a set_budget whose month is not of that form or whose amount is
\* invalid calls no save and leaves DATA_FILE and BACKUP_FILE as they were
C18_BudgetKeysWellFormed ==
    /\ IsJson(data_file)
          => \A m \in DOMAIN data_file.doc.budgets : WellFormedMonth(m)
    /\ (pc = "prompt" /\ cmd = "setbudget"
          /\ \/ ~WellFormedMonth(last.month)
             \/ normalize_amount(last.amt) = ValueError)
          => /\ sv = NoSave
             /\ data_file = last.data_file0
             /\ backup_file = last.backup0

\* C19: when the write or the rename of a save fails, atomic_save ends by
\* raising the exception (and raises in no other case), the command reports
\* it, and the program is at its prompt again; the program exits only on
\* the quit command
C19_SaveFailureReported ==
    /\ (sv.called /\ sv.done)
          => /\ sv.failed # "none" <=> sv.raised = "io"
             /\ sv.failed # "none"
                  => /\ sv.reported = "command"
                     /\ pc \in {"prompt", "exited"}
    /\ pc = "exited" => cmd = "quit"

\* the rename of a save failed, the exception was raised and reported, and
\* the program is at its prompt with commands left to type
C19_Witness ==
    /\ pc = "prompt"
    /\ sv.called
    /\ sv.done
    /\ sv.failed = "replace"
    /\ sv.raised = "io"
    /\ sv.reported = "command"
    /\ events < MaxEvents

\* C20: after an add has saved its expense, the budget warning is printed
\* exactly when the budgets have an entry for the month of the expense and
\* the sum of the amounts of the expenses of that month, the new one
\* included, is greater than it; DATA_FILE holds the dataset that was saved
C20_AlertExactlyWhenOver ==
    (pc = "prompt" /\ cmd = "add" /\ last.outcome = "saving"
        /\ sv.called /\ sv.done /\ sv.raised = "none")
      => LET d == data_file.doc
             m == month_of(d.expenses[Len(d.expenses)].date)
         IN  /\ last.alert <=>
                   /\ m \in DOMAIN d.budgets
                   /\ Sum(Amounts, InMonth(m)) > Decimal(d.budgets[m])
             /\ d = sv.arg

\* the warning was printed after an add
C20_Witness ==
    /\ pc = "prompt"
    /\ cmd = "add"
    /\ last.outcome = "saving"
    /\ sv.called /\ sv.done /\ sv.raised = "none"
    /\ last.alert
    /\ Len(data_file.doc.expenses) = 2

\* C21: DATA_FILE is absent or holds a complete dataset, in every state
C21_CanonicalNeverPartial ==
    ~data_file.exists \/ IsJson(data_file)

\* the expenses of DATA_FILE whose date can be parsed
Parsable ==
    SelectSeq(data_file.doc.expenses, LAMBDA e : month_of(e.date) # ValueError)

\* C22: the spent amount budget_status prints for a month in which an
\* expense falls is the total summary_by_month has for that month, every
\* total of a month that summary_by_month prints is the amount spent in the
\* month, and the spent amount is the same without the expenses whose date
\* cannot be parsed
C22_AggregationsAgree ==
    /\ (pc = "prompt" /\ cmd = "budget" /\ last.op = "budget" /\ last.printed)
          => /\ InMonth(last.month) # {}
                  => LET totals == summary_from(data_file.doc.expenses, 1,
                                                << >>)
                     IN  /\ last.month \in DOMAIN totals
                         /\ last.spent = totals[last.month]
             /\ last.spent = spent_from(Parsable, 1, last.month)
    /\ (pc = "prompt" /\ cmd = "summary" /\ last.op = "summary"
          /\ last.printed)
          => \A m \in (DOMAIN last.totals) \ {"unknown"} :
                last.totals[m] = spent_from(data_file.doc.expenses, 1, m)

\* the status of a month with expenses, on a dataset that also has an
\* expense whose date cannot be parsed
C22_Witness ==
    /\ pc = "prompt" /\ cmd = "budget" /\ last.op = "budget" /\ last.printed
    /\ Cardinality(InMonth(last.month)) = 2
    /\ Unparsable # {}
    /\ last.spent > 0

====
